---- MODULE Spec2Model ----
(***************************************************************************)
(* Model of the ModelScaleTool / TestTool plugins: the scale-factor        *)
(* setters, the tri-state lock getter, the activate/deactivate wiring of   *)
(* boundingBoxChanged and the selection-center debounce timer.             *)
(***************************************************************************)
EXTENDS Integers, Sequences, FiniteSets, TLC

VARIABLES
    selection,      \* Selection: the set of selected scene nodes (host state)
    op,             \* the setter that ran last ("none" before any call)
    y,              \* its text argument, a sequence of tokens
    bboxZ,          \* Selection.getBoundingBox().center.z seen by that call
    raised,         \* the exception that call let escape, or "none"
    scaleCalls,     \* the selected_node.scale(...) calls it made, in order
    stoppedEmits,   \* the toolOperationStopped emissions it made
    pushedOps,      \* the operations it pushed to the operation stack
    lock,           \* per node: the LockPosition setting, "unset" if absent
    lockResult,     \* what the last getLockPosition call returned
    setValue,       \* the value of the last setLockPosition call, "none" if none
    active,         \* TRUE between ToolActivateEvent and ToolDeactivateEvent
    connected,      \* nodes whose boundingBoxChanged is connected to propertyChanged
    lastEvent,      \* the event or host notification handled last
    propertyChangedEmits, \* propertyChanged emissions caused by lastEvent
    badDisconnects, \* disconnect calls of lastEvent on a node that was not connected
    timerActive,    \* _update_selection_center_timer is running
    timerRemaining, \* ms until it times out
    elapsed,        \* ms since the last selectionCenterChanged notification
    burstLen,       \* notifications of the current burst
    emitsInBurst    \* timer-driven propertyChanged emissions since the burst began

scaleVars == <<op, y, bboxZ, raised, scaleCalls, stoppedEmits, pushedOps>>
lockVars  == <<lock, lockResult, setValue>>
eventVars == <<active, connected, lastEvent, propertyChangedEmits, badDisconnects>>
timerVars == <<timerActive, timerRemaining, elapsed, burstLen, emitsInBurst>>
vars == <<selection, scaleVars, lockVars, eventVars, timerVars>>

(***************************************************************************)
(* Bounds of the model.                                                    *)
(***************************************************************************)
MaxNodes  == 3      \* scene nodes 1..MaxNodes
MaxTokens == 3      \* tokens of a setter's text argument
MaxBurst  == 3      \* notifications counted in one burst

(***************************************************************************)
(* Python floats (IEEE 754 binary64), restricted to zero, the powers of    *)
(* two, the infinities and NaN.  On powers of two the product and the      *)
(* quotient are exact unless the exponent leaves the binary64 range.       *)
(***************************************************************************)
MaxExp == 1023      \* 2^1023 is the largest power of two of a float
MinExp == -1074     \* 2^-1074 is the smallest positive float

Zero(s)   == [k |-> "zero", s |-> s, e |-> 0]
Fin(s, e) == [k |-> "fin", s |-> s, e |-> e]
Inf(s)    == [k |-> "inf", s |-> s, e |-> 0]
NaN       == [k |-> "nan", s |-> 0, e |-> 0]

Xor(a, b) == IF a = b THEN 0 ELSE 1

\* a finite result of exponent e: overflow gives inf, underflow gives zero
\* (2^-1075 is a tie between 0 and 2^-1074 and rounds to even, that is to 0)
Round(s, e) ==
    IF e > MaxExp THEN Inf(s)
    ELSE IF e < MinExp THEN Zero(s)
    ELSE Fin(s, e)

\* abs(x)
FloatAbs(x) == IF x.k = "nan" THEN NaN ELSE [x EXCEPT !.s = 0]

\* x * y
FloatMul(x, z) ==
    LET s == Xor(x.s, z.s) IN
    IF x.k = "nan" \/ z.k = "nan" THEN NaN
    ELSE IF x.k = "inf" \/ z.k = "inf"
         THEN IF x.k = "zero" \/ z.k = "zero" THEN NaN ELSE Inf(s)
    ELSE IF x.k = "zero" \/ z.k = "zero" THEN Zero(s)
    ELSE Round(s, x.e + z.e)

\* x != 0 (NaN compares unequal to everything)
FloatNonZero(x) == x.k # "zero"

\* an exception in place of a value
Err(name) == [k |-> name, s |-> 0, e |-> 0]

IsErr(x) == x.k \notin {"zero", "fin", "inf", "nan"}

\* x / y of two floats: Python raises ZeroDivisionError for every x when y is
\* 0.0 or -0.0
FloatDiv(x, z) ==
    LET s == Xor(x.s, z.s) IN
    IF z.k = "zero" THEN Err("ZeroDivisionError")
    ELSE IF x.k = "nan" \/ z.k = "nan" THEN NaN
    ELSE IF x.k = "inf" THEN (IF z.k = "inf" THEN NaN ELSE Inf(s))
    ELSE IF z.k = "inf" THEN Zero(s)
    ELSE IF x.k = "zero" THEN Zero(s)
    ELSE Round(s, x.e - z.e)

(***************************************************************************)
(* The text argument.  A string is a sequence of tokens: the separator "/" *)
(* or a lexeme free of "/"; no two lexemes are adjacent, so that each part *)
(* of the split string is one lexeme or the empty string.                  *)
(***************************************************************************)
Huge == "1.0715086071862673e+301"   \* repr(2.0 ** 1000)
Tiny == "9.332636185032189e-302"    \* repr(2.0 ** -1000)
Lexemes == {"4", "2", "-4", "0", "0.5", "abc", "inf", "nan", Huge, Tiny}
Tokens  == Lexemes \cup {"/"}

SeqsUpTo(S, n) == UNION {[1..m -> S] : m \in 0..n}

Strings ==
    {t \in SeqsUpTo(Tokens, MaxTokens) :
        \A i \in 1..(Len(t) - 1) : t[i] = "/" \/ t[i + 1] = "/"}

\* str.split("/"): the parts between the separators, "" for an empty part;
\* always at least one part
RECURSIVE SplitFrom(_, _, _)
SplitFrom(t, i, cur) ==
    IF i > Len(t) THEN <<cur>>
    ELSE IF t[i] = "/" THEN <<cur>> \o SplitFrom(t, i + 1, "")
    ELSE SplitFrom(t, i + 1, cur \o t[i])

Split(t) == SplitFrom(t, 1, "")

\* float(str_value): the float, or ValueError
PyFloat(str) ==
    CASE str = "4"    -> Fin(0, 2)
      [] str = "2"    -> Fin(0, 1)
      [] str = "-4"   -> Fin(1, 2)
      [] str = "0"    -> Zero(0)
      [] str = "0.5"  -> Fin(0, -1)
      [] str = "inf"  -> Inf(0)
      [] str = "nan"  -> NaN
      [] str = Huge   -> Fin(0, 1000)
      [] str = Tiny   -> Fin(0, -1000)
      [] OTHER        -> Err("ValueError")

\* _parseFloat: float(str_value), and float(0) on ValueError
ParseFloat(str) ==
    IF PyFloat(str).k = "ValueError" THEN Zero(0) ELSE PyFloat(str)

(***************************************************************************)
(* Float.fuzzyCompare(f1, f2, DIMENSION_TOLERANCE): |f1 - f2| < 0.0001.    *)
(* 2^-14 < 0.0001 < 2^-13, and on powers of two the comparison is decided  *)
(* by the exponents.                                                       *)
(***************************************************************************)
TolExp == -14       \* the largest e with 2^e < DIMENSION_TOLERANCE

Max2(a, b) == IF a >= b THEN a ELSE b
Min2(a, b) == IF a <= b THEN a ELSE b

FuzzyCompare(x, z) ==
    IF x.k \in {"nan", "inf"} \/ z.k \in {"nan", "inf"} THEN FALSE
    ELSE IF x.k = "zero" /\ z.k = "zero" THEN TRUE
    ELSE IF x.k = "zero" THEN z.e <= TolExp
    ELSE IF z.k = "zero" THEN x.e <= TolExp
    ELSE LET hi == Max2(x.e, z.e)
             lo == Min2(x.e, z.e)
         IN  IF x.s = z.s
             THEN hi = lo \/ hi <= TolExp \/ (hi = TolExp + 1 /\ lo >= TolExp - 1)
             ELSE hi < TolExp \/ (hi = TolExp /\ lo < TolExp)

(***************************************************************************)
(* The scene: nodes 1..MaxNodes, node n a child of node n \div 2 (node 1   *)
(* has no parent).                                                         *)
(***************************************************************************)
Nodes == 1..MaxNodes

Parent(n) == n \div 2

RECURSIVE HasSelectedAncestor(_, _)
HasSelectedAncestor(n, sel) ==
    LET a == Parent(n) IN
    IF a = 0 THEN FALSE
    ELSE IF a \in sel THEN TRUE
    ELSE HasSelectedAncestor(a, sel)

\* Tool._getSelectedObjectsWithoutSelectedAncestors()
TopLevel(sel) == {n \in sel : ~HasSelectedAncestor(n, sel)}

\* Vector(SCALE_FACTOR, SCALE_FACTOR, SCALE_FACTOR) handed to node n's scale()
ScaleCall(n, f) == [node |-> n, x |-> f, y |-> f, z |-> f]

\* the values Selection.getBoundingBox().center.z takes in the model
BBoxCenters == {Zero(0), Fin(0, 2), Fin(0, -20)}

Init ==
    /\ selection = {}
    /\ op = "none"
    /\ y = <<>>
    /\ bboxZ = Zero(0)
    /\ raised = "none"
    /\ scaleCalls = <<>>
    /\ stoppedEmits = 0
    /\ pushedOps = 0
    /\ lock = [n \in Nodes |-> "unset"]
    /\ lockResult = "none"
    /\ setValue = "none"
    /\ active = FALSE
    /\ connected = {}
    /\ lastEvent = [type |-> "none", node |-> 0]
    /\ propertyChangedEmits = 0
    /\ badDisconnects = 0
    /\ timerActive = FALSE
    /\ timerRemaining = 0
    /\ elapsed = 0
    /\ burstLen = 0
    /\ emitsInBurst = 0

\* what a setter call did: the exception it let escape, its scale() calls and
\* its toolOperationStopped emissions
Outcome(exc, calls, stopped) ==
    [raised |-> exc, calls |-> calls, stopped |-> stopped]

\* (parsed_Desired * parsed_Start) != 0
GuardPasses(d, s) == FloatNonZero(FloatMul(d, s))

\* the factor with the operands exchanged: desired divided by start
ScaleFactorSwapped(d, s) == FloatDiv(d, s)

\* SCALE_FACTOR = (parsed_Start)/(parsed_Desired)
ScaleFactor(d, s) == FloatDiv(s, d)

\* ModelScaleTool.setModelScale(y) under selection sel
SetModelScaleOutcome(t, sel) ==
    LET parts == Split(t) IN
    IF Len(parts) < 2 THEN Outcome("IndexError", <<>>, 0)
    ELSE LET d == FloatAbs(ParseFloat(parts[1]))
             s == FloatAbs(ParseFloat(parts[2]))
             nodes == TopLevel(sel)
             f == ScaleFactor(d, s)
         IN  IF ~GuardPasses(d, s) THEN Outcome("none", <<>>, 0)
             ELSE IF Cardinality(nodes) > 1 THEN Outcome("none", <<>>, 1)
             ELSE IF nodes = {} THEN Outcome("none", <<>>, 1)
             ELSE IF IsErr(f) THEN Outcome(f.k, <<>>, 0)
             ELSE Outcome("none", <<ScaleCall(CHOOSE n \in nodes : TRUE, f)>>, 1)

\* not Float.fuzzyCompare(parsed_y, float(bounding_box.center.z), DIMENSION_TOLERANCE)
SetYGuardPasses(parsed_y, z) == ~FuzzyCompare(parsed_y, z)

\* TestTool.setY(y) under selection sel; z is Selection.getBoundingBox().center.z
SetYOutcome(t, z, sel) ==
    LET parts == Split(t) IN
    IF Len(parts) < 2 THEN Outcome("IndexError", <<>>, 0)
    ELSE LET parsed_y == ParseFloat(parts[1])
             parsed_x == ParseFloat(parts[2])
             nodes == TopLevel(sel)
             f == FloatDiv(parsed_x, parsed_y)
         IN  IF ~SetYGuardPasses(parsed_y, z) THEN Outcome("none", <<>>, 1)
             ELSE IF Cardinality(nodes) > 1 THEN Outcome("none", <<>>, 1)
             ELSE IF nodes = {} THEN Outcome("none", <<>>, 1)
             ELSE IF IsErr(f) THEN Outcome(f.k, <<>>, 0)
             ELSE Outcome("none", <<ScaleCall(CHOOSE n \in nodes : TRUE, f)>>, 1)

\* the record of a setter call: what it was given and what it did; neither
\* setter pushes an operation (the GroupedOperation it creates is dropped)
Called(name, t, z, out) ==
    /\ op' = name
    /\ y' = t
    /\ bboxZ' = z
    /\ raised' = out.raised
    /\ scaleCalls' = out.calls
    /\ stoppedEmits' = out.stopped
    /\ pushedOps' = 0

\* The host's event loop is single-threaded: a setter runs to completion when
\* the loop is idle (op = "none"), and its record stands until the loop
\* takes up the next event.
SetModelScale(t) ==
    /\ op = "none"
    /\ Called("setModelScale", t, Zero(0), SetModelScaleOutcome(t, selection))
    /\ UNCHANGED <<selection, lockVars, eventVars, timerVars>>

SetY(t, z) ==
    /\ op = "none"
    /\ Called("setY", t, z, SetYOutcome(t, z, selection))
    /\ UNCHANGED <<selection, lockVars, eventVars, timerVars>>

\* the setter has returned and the loop is idle again
ReturnToLoop ==
    /\ op # "none"
    /\ Called("none", <<>>, Zero(0), Outcome("none", <<>>, 0))
    /\ UNCHANGED <<selection, lockVars, eventVars, timerVars>>

\* The host adds node n to the selection or removes it from it, and emits
\* Selection.selectionChanged, which is connected to propertyChanged.  The
\* records of the last setter and getter calls are cleared: they describe
\* calls made under the selection as it is.
SelectionChanged(n) ==
    /\ selection' = IF n \in selection THEN selection \ {n} ELSE selection \cup {n}
    /\ Called("none", <<>>, Zero(0), Outcome("none", <<>>, 0))
    /\ lockResult' = "none"
    /\ setValue' = "none"
    /\ lastEvent' = [type |-> "selectionChanged", node |-> n]
    /\ propertyChangedEmits' = 1
    /\ badDisconnects' = 0
    /\ UNCHANGED <<lock, active, connected, timerVars>>

NextScale ==
    \/ \E n \in Nodes : SelectionChanged(n)
    \/ \E t \in Strings : SetModelScale(t)
    \/ \E t \in Strings, z \in BBoxCenters : SetY(t, z)
    \/ ReturnToLoop

SpecScale == Init /\ [][NextScale]_vars

(***************************************************************************)
(* The lock setting.                                                       *)
(***************************************************************************)
\* selected_node.getSetting(SceneNodeSettings.LockPosition, "False")
GetSetting(n) == IF lock[n] = "unset" THEN "False" ELSE lock[n]

\* getLockPosition(): "True", "False" or "partially"
GetLockPositionResult(sel) ==
    LET total_size == Cardinality(sel)
        true_state_counter ==
            Cardinality({n \in TopLevel(sel) : GetSetting(n) # "False"})
        false_state_counter ==
            Cardinality({n \in TopLevel(sel) : GetSetting(n) = "False"})
    IN  IF sel = {} THEN "False"
        ELSE IF total_size = false_state_counter THEN "False"
        ELSE IF total_size = true_state_counter THEN "True"
        ELSE "partially"

GetLockPosition ==
    /\ lockResult' = GetLockPositionResult(selection)
    /\ UNCHANGED <<selection, lock, setValue, scaleVars, eventVars, timerVars>>

\* a str() that writes the booleans in lower case
PyStrLower(value) == IF value THEN "true" ELSE "false"

\* str(value) of a bool
PyStr(value) == IF value THEN "True" ELSE "False"

\* setLockPosition(value): str(value) on every top-level selected node; the
\* value is recorded the way getLockPosition() would return it
SetLockPosition(value) ==
    /\ lock' = [n \in Nodes |->
                  IF n \in TopLevel(selection) THEN PyStr(value) ELSE lock[n]]
    /\ lockResult' = "none"
    /\ setValue' = IF value THEN "True" ELSE "False"
    /\ UNCHANGED <<selection, scaleVars, eventVars, timerVars>>

NextLock ==
    \/ \E n \in Nodes : SelectionChanged(n)
    \/ \E value \in BOOLEAN : SetLockPosition(value)
    \/ GetLockPosition

SpecLock == Init /\ [][NextLock]_vars

(***************************************************************************)
(* event(): the wiring of boundingBoxChanged.  A signal keeps each         *)
(* connection once; disconnecting what is not connected changes nothing.   *)
(***************************************************************************)
Handled(type, n, emits, bad) ==
    /\ lastEvent' = [type |-> type, node |-> n]
    /\ propertyChangedEmits' = emits
    /\ badDisconnects' = bad

\* event(ToolActivateEvent): the host activates the tool
ToolActivate ==
    /\ active' = TRUE
    /\ connected' = connected \cup TopLevel(selection)
    /\ Handled("ToolActivateEvent", 0, 0, 0)
    /\ UNCHANGED <<selection, scaleVars, lockVars, timerVars>>

\* event(ToolDeactivateEvent): the host deactivates the tool
ToolDeactivate ==
    /\ active' = FALSE
    /\ connected' = connected \ TopLevel(selection)
    /\ Handled("ToolDeactivateEvent", 0, 0,
               Cardinality(TopLevel(selection) \ connected))
    /\ UNCHANGED <<selection, scaleVars, lockVars, timerVars>>

\* event(KeyPressEvent): nothing is done
KeyPress ==
    /\ Handled("KeyPressEvent", 0, 0, 0)
    /\ UNCHANGED <<selection, active, connected, scaleVars, lockVars, timerVars>>

\* node n emits boundingBoxChanged: propertyChanged is emitted if connected
BoundingBoxChanged(n) ==
    /\ Handled("boundingBoxChanged", n, IF n \in connected THEN 1 ELSE 0, 0)
    /\ UNCHANGED <<selection, active, connected, scaleVars, lockVars, timerVars>>

NextEvent ==
    \/ \E n \in Nodes : SelectionChanged(n)
    \/ ToolActivate
    \/ ToolDeactivate
    \/ KeyPress
    \/ \E n \in Nodes : BoundingBoxChanged(n)

SpecEvent == Init /\ [][NextEvent]_vars

(***************************************************************************)
(* The debounce timer _update_selection_center_timer, in steps of 1 ms.    *)
(***************************************************************************)
Interval == 50          \* setInterval(50)
SingleShot == TRUE      \* setSingleShot(True)

\* a start() that lets a running timer run on instead of restarting it
StartKeepsRunning(running, remaining) == IF running THEN remaining ELSE Interval

\* QTimer.start(): the time to run of a timer started or restarted
StartRemaining(running, remaining) == Interval

\* Selection.selectionCenterChanged -> _onSelectionCenterChanged -> start().
\* A notification that finds the timer running continues the burst; one that
\* finds it stopped begins a new burst.
OnSelectionCenterChanged ==
    /\ timerActive => burstLen < MaxBurst
    /\ timerActive' = TRUE
    /\ timerRemaining' = StartRemaining(timerActive, timerRemaining)
    /\ elapsed' = 0
    /\ burstLen' = IF timerActive THEN burstLen + 1 ELSE 1
    /\ emitsInBurst' = IF timerActive THEN emitsInBurst ELSE 0
    /\ UNCHANGED <<selection, scaleVars, lockVars, eventVars>>

\* 1 ms passes while the timer runs
Tick ==
    /\ timerActive
    /\ timerRemaining > 0
    /\ timerRemaining' = timerRemaining - 1
    /\ elapsed' = elapsed + 1
    /\ UNCHANGED <<timerActive, burstLen, emitsInBurst>>
    /\ UNCHANGED <<selection, scaleVars, lockVars, eventVars>>

\* the timer times out: timeout is connected to propertyChanged.emit
Timeout ==
    /\ timerActive
    /\ timerRemaining = 0
    /\ emitsInBurst' = emitsInBurst + 1
    /\ timerActive' = ~SingleShot
    /\ timerRemaining' = IF SingleShot THEN 0 ELSE Interval
    /\ UNCHANGED <<elapsed, burstLen>>
    /\ UNCHANGED <<selection, scaleVars, lockVars, eventVars>>

NextTimer ==
    \/ OnSelectionCenterChanged
    \/ Tick
    \/ Timeout

SpecTimer == Init /\ [][NextTimer]_vars

\* The four parts act on variables of their own and share only the selection:
\* each claim is checked under the part it is about.
Next ==
    \/ NextScale
    \/ NextLock
    \/ NextEvent
    \/ NextTimer

Spec == Init /\ [][Next]_vars

(***************************************************************************)
(* The scale setters: claims C1, C2, C3, C5, C7, C8 (under SpecScale).     *)
(***************************************************************************)
\* the last call's argument has the form "d/s": exactly two parts
TwoParts == Len(Split(y)) = 2

\* what float() makes of the two parts
DesiredPart == PyFloat(Split(y)[1])
StartPart   == PyFloat(Split(y)[2])

\* the part is a nonzero finite number
NonZeroNumber(v) == v.k = "fin"

\* the part is zero or not numeric (float() raises ValueError)
ZeroOrNonNumeric(v) == v.k \in {"zero", "ValueError"}

\* the last call scaled exactly node n, once, by the uniform vector (f, f, f)
ScaledOnceBy(n, f) == scaleCalls = <<[node |-> n, x |-> f, y |-> f, z |-> f]>>

\* C1 (as claimed): setModelScale on "d/s" with exactly one top-level selected
\* node and d, s nonzero numbers scales that node once by (f, f, f), f the
\* float quotient |s| / |d|, and scales no other node.
C1_ScalesByStartOverDesired ==
    (/\ op = "setModelScale"
     /\ TwoParts
     /\ NonZeroNumber(DesiredPart) /\ NonZeroNumber(StartPart)
     /\ Cardinality(TopLevel(selection)) = 1)
    => /\ raised = "none"
       /\ \E n \in TopLevel(selection) :
            ScaledOnceBy(n, Round(0, StartPart.e - DesiredPart.e))

\* C2 (as claimed): setModelScale on "d/s" with d or s zero or non-numeric
\* scales no node, emits no toolOperationStopped and raises nothing, whatever
\* the selection.
C2_ZeroPartIsNoOp ==
    (/\ op = "setModelScale"
     /\ TwoParts
     /\ ZeroOrNonNumeric(DesiredPart) \/ ZeroOrNonNumeric(StartPart))
    => /\ scaleCalls = <<>>
       /\ stoppedEmits = 0
       /\ raised = "none"

\* C3 (as claimed): TestTool.setY on "d/s" with d or s zero or non-numeric
\* scales no node and raises no division by zero, whatever the selection and
\* the bounding-box center.
C3_SetYZeroPartIsNoOp ==
    (/\ op = "setY"
     /\ TwoParts
     /\ ZeroOrNonNumeric(DesiredPart) \/ ZeroOrNonNumeric(StartPart))
    => /\ scaleCalls = <<>>
       /\ raised # "ZeroDivisionError"

\* C5 (as claimed): setModelScale returns normally for every input string,
\* one without a "/" or with an empty part included.
C5_NeverRaises == op = "setModelScale" => raised = "none"

\* C7: the zero-product guard of setModelScale is not sufficient.  With one
\* top-level selected node, a desired part of zero with a start part of inf
\* or nan passes the guard and the division raises ZeroDivisionError; and two
\* nonzero finite parts whose product is in range but whose quotient
\* underflows pass the guard and the node is scaled by zero.
C7_GuardInsufficient ==
    (/\ op = "setModelScale"
     /\ TwoParts
     /\ Cardinality(TopLevel(selection)) = 1)
    => /\ (DesiredPart.k = "zero" /\ StartPart.k \in {"inf", "nan"})
            => (raised = "ZeroDivisionError" /\ scaleCalls = <<>>)
       /\ (/\ NonZeroNumber(DesiredPart) /\ NonZeroNumber(StartPart)
           /\ DesiredPart.e + StartPart.e \in MinExp..MaxExp
           /\ StartPart.e - DesiredPart.e < MinExp)
            => (/\ raised = "none"
                /\ \E n \in TopLevel(selection) : ScaledOnceBy(n, Zero(0)))

\* C7's case: two finite nonzero numbers, and a node scaled by zero
C7_Witness ==
    /\ op = "setModelScale"
    /\ y = <<Huge, "/", Tiny>>
    /\ Len(scaleCalls) = 1
    /\ scaleCalls[1].x = Zero(0)

\* C8 (as claimed): setModelScale with both parts nonzero and more than one
\* top-level selected node scales no node and pushes no operation, yet emits
\* toolOperationStopped exactly once.
C8_MultiNodeStub ==
    (/\ op = "setModelScale"
     /\ TwoParts
     /\ NonZeroNumber(DesiredPart) /\ NonZeroNumber(StartPart)
     /\ Cardinality(TopLevel(selection)) > 1)
    => /\ scaleCalls = <<>>
       /\ pushedOps = 0
       /\ stoppedEmits = 1
       /\ raised = "none"

(***************************************************************************)
(* The lock getter: claim C4 (under SpecLock).                             *)
(***************************************************************************)
Locked(n) == GetSetting(n) # "False"

\* C4 (as claimed): on a non-empty selection getLockPosition returns True if
\* every selected node is locked, False if none is, "partially" otherwise,
\* also when a selected node has a selected ancestor; on an empty selection
\* it returns False.
C4_LockTriState ==
    lockResult # "none"
    => lockResult =
         IF selection = {} THEN "False"
         ELSE IF \A n \in selection : Locked(n) THEN "True"
         ELSE IF \A n \in selection : ~Locked(n) THEN "False"
         ELSE "partially"

\* setLockPosition(v), v the recorded value, has run under the selection as
\* it is: v is the setting of every top-level selected node, and a
\* getLockPosition() that followed on a non-empty selection without nested
\* nodes returned v
LockRoundTrip ==
    setValue # "none"
    => /\ \A n \in TopLevel(selection) : lock[n] = setValue
       /\ (/\ lockResult # "none"
           /\ selection # {}
           /\ TopLevel(selection) = selection)
          => lockResult = setValue

\* a step writes the lock setting of top-level selected nodes only, and a
\* step that writes one leaves the selection as it is
LockFrame ==
    /\ \A n \in Nodes \ TopLevel(selection) : lock'[n] = lock[n]
    /\ lock' # lock => selection' = selection

\* C11: on a non-empty selection in which no selected node has a selected
\* ancestor, setLockPosition(v) followed by getLockPosition() returns v, for
\* v True and v False; setLockPosition writes the setting on the top-level
\* selected nodes only and leaves every other node's setting and the
\* selection unchanged.
C11_LockRoundTrip == [](LockRoundTrip) /\ [][LockFrame]_vars

\* C11's case: True was set on two selected nodes, neither under the other,
\* the getter returned True, and a node outside the selection is not locked
C11_Witness ==
    /\ setValue = "True"
    /\ lockResult = "True"
    /\ Cardinality(selection) >= 2
    /\ TopLevel(selection) = selection
    /\ \E n \in Nodes \ selection : lock[n] # "True"

(***************************************************************************)
(* The wiring of boundingBoxChanged: claims C9, C10 (under SpecEvent).     *)
(***************************************************************************)
\* C9 (as claimed): while the tool is active, a bounding-box change of a
\* currently selected top-level node emits propertyChanged, also for a node
\* selected after the activation.
C9_ActiveBBoxChangeEmits ==
    (/\ lastEvent.type = "boundingBoxChanged"
     /\ active
     /\ lastEvent.node \in TopLevel(selection))
    => propertyChangedEmits >= 1

\* C10 (as claimed): once a ToolDeactivateEvent has been handled no node's
\* boundingBoxChanged is connected to propertyChanged, and the handler
\* disconnected no node that was not connected.
C10_DeactivateUnwiresAll ==
    /\ ~active => connected = {}
    /\ lastEvent.type = "ToolDeactivateEvent" => badDisconnects = 0

(***************************************************************************)
(* The debounce: claim C6 (under SpecTimer).                               *)
(***************************************************************************)
\* C6: in a burst of notifications, each arriving before the timer expires,
\* no timer-driven propertyChanged is emitted while the timer runs, the timer
\* expires Interval ms after the last notification, and once it has expired
\* exactly one timer-driven emission has been made, Interval ms after the
\* last notification of the burst.
C6_Debounce ==
    burstLen > 0
    => IF timerActive
       THEN emitsInBurst = 0 /\ timerRemaining = Interval - elapsed
       ELSE emitsInBurst = 1 /\ elapsed = Interval

\* C6's case: a burst of several notifications has ended in its one emission
C6_Witness ==
    /\ burstLen >= 2
    /\ ~timerActive
    /\ emitsInBurst = 1

====
